---- MODULE Spec2Model ----
(***************************************************************************)
(* Round state machine and settlement engine of the head/tale wagering     *)
(* server (src/server.js).  Node runs one handler at a time, so every      *)
(* handler (connection, "play", "disconnect", the two setTimeout           *)
(* callbacks) is one atomic action.  Time is counted in whole seconds;     *)
(* a pending timer is kept as the number of seconds left until it fires,  *)
(* and a time stamp as its distance from Date.now().                       *)
(***************************************************************************)
EXTENDS Integers, Sequences, FiniteSets, TLC

\* ---------------------------------------------------------------- bounds
MaxRounds == 3           \* rounds ever started
MaxSettled == 11         \* rounds ever started in HistorySpec
MaxFairRounds == 2       \* rounds ever started in FairSpec
MaxHistoryLen == 6       \* longest history given to calculateStreak in CalcSpec
MaxStreakArg == 20       \* largest streak given to calculateMultiplier in CalcSpec

\* ------------------------------------------------------ program constants
GAME_DURATION == 10      \* seconds, server.js:27
RESET_DELAY == 3         \* seconds, the 3000 ms of server.js:107
HISTORY_KEEP == 9        \* slice(-9), server.js:66
STREAK_CAP == 9          \* Math.min(streak - 1, 9), server.js:129

\* -------------------------------------------------------- inputs of "play"
SocketIds == {"s1", "s2"}             \* socket.id of each connection; an id is never reused
Sides == {"head", "tale", "draw"}     \* "draw" stands for any side that is neither head nor tale
Points == {0, 30, 50}

Null == <<>>

VARIABLES
  head,            \* gameData.head: socket id -> points
  tale,            \* gameData.tale: socket id -> points
  gameHistory,     \* gameData.gameHistory
  activePlayers,   \* gameData.activePlayers
  currentBets,     \* gameData.currentBets: socket id -> [side, amount]
  isRoundActive,   \* gameData.isRoundActive
  roundEndTime,    \* gameData.roundEndTime: Null or <<seconds from now>>
  sockets,         \* transport: socket id -> "fresh" | "open" | "closed"
  endTimers,       \* pending setTimeout(endRound): set of [left, round]
  resetTimers,     \* pending setTimeout(reset): set of [left, round]
  emitted,         \* the notifications sent by the last handler, in order
  roundNo,         \* observer: number of "game-start" notifications so far
  acceptedInRound, \* observer: socket id -> wagers accepted since the last "game-start"
  forcedRounds,    \* observer: rounds whose last participant left while they were active
  settled,         \* observer: the outcome of every settled round, oldest first
  call             \* a single call of calculateStreak or calculateMultiplier: Null or [fn, arg, result]

vars == <<head, tale, gameHistory, activePlayers, currentBets, isRoundActive,
          roundEndTime, sockets, endTimers, resetTimers, emitted, roundNo,
          acceptedInRound, forcedRounds, settled, call>>

\* ------------------------------------------------------------- helpers
\* obj[k] = v on a plain object
Put(obj, k, v) == [x \in (DOMAIN obj) \cup {k} |-> IF x = k THEN v ELSE obj[x]]

\* variant: the key is left in the object
Delete_Nothing(obj, k) == obj

\* delete obj[k]
Delete(obj, k) == [x \in (DOMAIN obj) \ {k} |-> obj[x]]

RECURSIVE SumOver(_, _)
SumOver(obj, keys) ==
  IF keys = {} THEN 0
  ELSE LET k == CHOOSE x \in keys : TRUE
       IN obj[k] + SumOver(obj, keys \ {k})

\* Object.values(obj).reduce((acc, val) => acc + val, 0)
Total(obj) == SumOver(obj, DOMAIN obj)

\* history.slice(-n)
SliceLast(history, n) ==
  IF Len(history) <= n THEN history
  ELSE SubSeq(history, Len(history) - n + 1, Len(history))

Min(a, b) == IF a < b THEN a ELSE b

\* ------------------------------------------------- calculateStreak
RECURSIVE StreakFrom(_, _, _)
StreakFrom(history, i, streak) ==
  IF i >= 1 /\ history[i] = history[Len(history)]
  THEN StreakFrom(history, i - 1, streak + 1)
  ELSE streak

\* variant: the loop has no break, so every entry equal to the last one counts
calculateStreak_NoBreak(history) ==
  Cardinality({i \in DOMAIN history : history[i] = history[Len(history)]})

calculateStreak(history) ==
  IF Len(history) = 0 THEN 0
  ELSE StreakFrom(history, Len(history) - 1, 1)

\* ------------------------------------------------- calculateMultiplier
\* (x).toFixed(2) for x a multiple of 0.5, given as a number of halves:
\* the decimal string, as <<integer part, first decimal, second decimal>>
ToFixed2(halves) == <<halves \div 2, (halves % 2) * 5, 0>>

\* parseFloat of such a string, in hundredths
ParseFloat(str) == str[1] * 100 + str[2] * 10 + str[3]

\* variant: no Math.min, so the multiplier is not capped
calculateMultiplier_NoCap(streak) == ToFixed2(3 + (streak - 1))

\* baseMultiplier 1.5 is 3 halves; each extra streak step adds one half
calculateMultiplier(streak) == ToFixed2(3 + Min(streak - 1, STREAK_CAP))

\* ------------------------------------------------- winner rule of endRound
\* variant: the side with the higher total wins
Winner_HigherWins(totalHead, totalTale) ==
  IF totalTale > totalHead THEN "tale"
  ELSE IF totalHead > totalTale THEN "head"
  ELSE "draw"

Winner(totalHead, totalTale) ==
  IF totalTale < totalHead THEN "tale"
  ELSE IF totalHead < totalTale THEN "head"
  ELSE "draw"

\* variant: slice(-10), which keeps eleven outcomes
NextHistory_KeepTen(history, winner) == SliceLast(history, HISTORY_KEEP + 1) \o <<winner>>

\* gameHistory after the round's outcome is appended
NextHistory(history, winner) == SliceLast(history, HISTORY_KEEP) \o <<winner>>

\* variant: a winner is paid the stake, without the multiplier
PlayerResult_PaysStake(betData, winner, multiplier) ==
  [won |-> betData.side = winner,
   amount |-> IF betData.side = winner THEN betData.amount * 100 ELSE 0,
   originalBet |-> betData.amount,
   side |-> betData.side]

\* one playerResults entry; amount is in hundredths of a point
PlayerResult(betData, winner, multiplier) ==
  [won |-> betData.side = winner,
   amount |-> IF betData.side = winner
              THEN betData.amount * ParseFloat(multiplier) ELSE 0,
   originalBet |-> betData.amount,
   side |-> betData.side]

PlayerResults(bets, winner, multiplier) ==
  [id \in DOMAIN bets |-> PlayerResult(bets[id], winner, multiplier)]

\* ------------------------------------------------------------ initial state
Init ==
  /\ head = <<>>
  /\ tale = <<>>
  /\ gameHistory = <<>>
  /\ activePlayers = {}
  /\ currentBets = <<>>
  /\ isRoundActive = FALSE
  /\ roundEndTime = Null
  /\ sockets = [id \in SocketIds |-> "fresh"]
  /\ endTimers = {}
  /\ resetTimers = {}
  /\ emitted = <<>>
  /\ roundNo = 0
  /\ acceptedInRound = [id \in SocketIds |-> 0]
  /\ forcedRounds = {}
  /\ settled = <<>>
  /\ call = Null

\* ------------------------------------------------- io.on("connection")
Connect(id) ==
  /\ sockets[id] = "fresh"
  /\ sockets' = [sockets EXCEPT ![id] = "open"]
  /\ activePlayers' = activePlayers \cup {id}
  /\ emitted' = << [type |-> "game-history", to |-> id,
                    history |-> gameHistory, activePlayers |-> activePlayers'],
                   [type |-> "update-active-players",
                    activePlayers |-> activePlayers'] >>
  /\ UNCHANGED <<head, tale, gameHistory, currentBets, isRoundActive,
                 roundEndTime, endTimers, resetTimers, roundNo,
                 acceptedInRound, forcedRounds, settled, call>>

\* ------------------------------------------------- socket.on("play")
\* whether the handler returns early
AlreadyBet(bets, id) == id \in DOMAIN bets

\* whether the handler calls startNewRound, and startNewRound does not return early
StartsRound(active) == ~active

\* variant: the bet is added to the map whatever its side
RecordSide_AnySide(obj, which, id, side, point) == Put(obj, id, point)

\* gameData.head / gameData.tale after "Record the bet"
RecordSide(obj, which, id, side, point) ==
  IF side = which THEN Put(obj, id, point) ELSE obj

\* the handler, with at most `limit` rounds started
PlayUpTo(id, side, point, limit) ==
  /\ sockets[id] = "open"
  /\ IF AlreadyBet(currentBets, id)
     THEN /\ emitted' = <<>>
          /\ UNCHANGED <<head, tale, gameHistory, activePlayers, currentBets,
                         isRoundActive, roundEndTime, sockets, endTimers,
                         resetTimers, roundNo, acceptedInRound, forcedRounds,
                         settled, call>>
     ELSE LET starts == StartsRound(isRoundActive)
              head2 == RecordSide(head, "head", id, side, point)
              tale2 == RecordSide(tale, "tale", id, side, point)
              started == IF starts
                         THEN << [type |-> "game-start", duration |-> GAME_DURATION,
                                  startTime |-> 0, round |-> roundNo + 1] >>
                         ELSE <<>>
          IN /\ starts => roundNo < limit
             /\ isRoundActive' = TRUE
             /\ roundEndTime' = IF starts THEN <<GAME_DURATION>> ELSE roundEndTime
             /\ endTimers' = IF starts
                             THEN endTimers \cup {[left |-> GAME_DURATION, round |-> roundNo + 1]}
                             ELSE endTimers
             /\ roundNo' = IF starts THEN roundNo + 1 ELSE roundNo
             /\ head' = head2
             /\ tale' = tale2
             /\ currentBets' = Put(currentBets, id, [side |-> side, amount |-> point])
             /\ emitted' = started \o
                           << [type |-> "bet-update", head |-> Total(head2),
                               tale |-> Total(tale2),
                               newBet |-> [playerId |-> id, side |-> side, amount |-> point],
                               round |-> roundNo'] >>
             /\ acceptedInRound' =
                  [p \in SocketIds |->
                     IF p = id THEN (IF starts THEN 0 ELSE acceptedInRound[p]) + 1
                     ELSE IF starts THEN 0 ELSE acceptedInRound[p]]
             /\ UNCHANGED <<gameHistory, activePlayers, sockets, resetTimers, forcedRounds,
                            settled, call>>

Play(id, side, point) == PlayUpTo(id, side, point, MaxRounds)

\* ------------------------------------------------- socket.on("disconnect")
\* variant: the round is left running when the last player leaves
StopIfEmpty_Never(players, active) == active

\* isRoundActive after "If no players left, stop the round"
StopIfEmpty(players, active) == IF Cardinality(players) = 0 THEN FALSE ELSE active

Disconnect(id) ==
  /\ sockets[id] = "open"
  /\ sockets' = [sockets EXCEPT ![id] = "closed"]
  /\ activePlayers' = activePlayers \ {id}
  /\ currentBets' = Delete(currentBets, id)
  /\ head' = Delete(head, id)
  /\ tale' = Delete(tale, id)
  /\ emitted' = << [type |-> "update-active-players", activePlayers |-> activePlayers'],
                   [type |-> "player-left", playerId |-> id,
                    activePlayers |-> activePlayers'] >>
  /\ isRoundActive' = StopIfEmpty(activePlayers', isRoundActive)
  /\ roundEndTime' = IF Cardinality(activePlayers') = 0 THEN Null ELSE roundEndTime
  /\ forcedRounds' = IF isRoundActive /\ activePlayers \ {id} = {}
                     THEN forcedRounds \cup {roundNo} ELSE forcedRounds
  /\ UNCHANGED <<gameHistory, endTimers, resetTimers, roundNo, acceptedInRound,
                 settled, call>>

\* ------------------------------------------------- timers
\* Node runs the due timers of one delay in the order they were scheduled
Due(timers) ==
  {t \in timers : t.left = 0 /\ \A u \in timers : u.left = 0 => t.round <= u.round}

\* variant: endRound settles whether or not a round is active
EndRoundReturnsEarly_Never(active) == FALSE

\* whether endRound returns at once ("Cannot end round, no active game")
EndRoundReturnsEarly(active) == ~active

\* variant: endRound leaves the round marked active
ActiveAfterEndRound_Still == TRUE

\* gameData.isRoundActive after "Mark game as ended immediately"
ActiveAfterEndRound == FALSE

\* the setTimeout callback of startNewRound: endRound()
EndRound(t) ==
  /\ t \in Due(endTimers)
  /\ endTimers' = endTimers \ {t}
  /\ IF EndRoundReturnsEarly(isRoundActive)
     THEN /\ emitted' = <<>>
          /\ UNCHANGED <<head, tale, gameHistory, activePlayers, currentBets,
                         isRoundActive, roundEndTime, sockets, resetTimers,
                         roundNo, acceptedInRound, forcedRounds, settled, call>>
     ELSE LET totalHead == Total(head)
              totalTale == Total(tale)
              winner == Winner(totalHead, totalTale)
              history2 == NextHistory(gameHistory, winner)
              streak == calculateStreak(history2)
              multiplier == calculateMultiplier(streak)
          IN /\ gameHistory' = history2
             /\ isRoundActive' = ActiveAfterEndRound
             /\ roundEndTime' = Null
             /\ settled' = Append(settled, winner)
             /\ emitted' = << [type |-> "game-result", totalHead |-> totalHead,
                               totalTale |-> totalTale, winner |-> winner,
                               streak |-> streak, multiplier |-> multiplier,
                               history |-> history2,
                               playerResults |-> PlayerResults(currentBets, winner, multiplier),
                               round |-> roundNo, timerRound |-> t.round] >>
             /\ resetTimers' = resetTimers \cup {[left |-> RESET_DELAY, round |-> roundNo]}
             /\ UNCHANGED <<head, tale, activePlayers, currentBets, sockets,
                            roundNo, acceptedInRound, forcedRounds, call>>

\* variant: the reset starts the next round when a player is still connected
ResetRound_Restart(t) ==
  /\ t \in Due(resetTimers)
  /\ resetTimers' = resetTimers \ {t}
  /\ head' = <<>>
  /\ tale' = <<>>
  /\ currentBets' = <<>>
  /\ LET starts == activePlayers # {} /\ ~isRoundActive /\ roundNo < MaxRounds
     IN /\ isRoundActive' = (isRoundActive \/ starts)
        /\ roundEndTime' = IF starts THEN <<GAME_DURATION>> ELSE roundEndTime
        /\ endTimers' = IF starts
                        THEN endTimers \cup {[left |-> GAME_DURATION, round |-> roundNo + 1]}
                        ELSE endTimers
        /\ roundNo' = IF starts THEN roundNo + 1 ELSE roundNo
        /\ acceptedInRound' = IF starts THEN [p \in SocketIds |-> 0] ELSE acceptedInRound
        /\ emitted' = << [type |-> "reset-game", round |-> t.round] >> \o
                      (IF starts
                       THEN << [type |-> "game-start", duration |-> GAME_DURATION,
                                startTime |-> 0, round |-> roundNo + 1] >>
                       ELSE <<>>)
  /\ UNCHANGED <<gameHistory, activePlayers, sockets, forcedRounds, settled, call>>

\* the setTimeout callback of endRound: "Reset for next round"
ResetRound(t) ==
  /\ t \in Due(resetTimers)
  /\ resetTimers' = resetTimers \ {t}
  /\ head' = <<>>
  /\ tale' = <<>>
  /\ currentBets' = <<>>
  /\ emitted' = << [type |-> "reset-game", round |-> t.round] >>
  /\ UNCHANGED <<gameHistory, activePlayers, isRoundActive, roundEndTime,
                 sockets, endTimers, roundNo, acceptedInRound, forcedRounds,
                 settled, call>>

\* one second passes; a due timer runs before the clock moves on
Tick ==
  /\ endTimers \cup resetTimers # {}
  /\ \A t \in endTimers \cup resetTimers : t.left > 0
  /\ endTimers' = {[t EXCEPT !.left = @ - 1] : t \in endTimers}
  /\ resetTimers' = {[t EXCEPT !.left = @ - 1] : t \in resetTimers}
  /\ roundEndTime' = IF roundEndTime = Null THEN Null ELSE <<roundEndTime[1] - 1>>
  /\ emitted' = <<>>
  /\ UNCHANGED <<head, tale, gameHistory, activePlayers, currentBets,
                 isRoundActive, sockets, roundNo, acceptedInRound, forcedRounds,
                 settled, call>>

Next ==
  \/ \E id \in SocketIds : Connect(id)
  \/ \E id \in SocketIds, side \in Sides, point \in Points : Play(id, side, point)
  \/ \E id \in SocketIds : Disconnect(id)
  \/ \E t \in endTimers : EndRound(t)
  \/ \E t \in resetTimers : ResetRound(t)
  \/ Tick

Spec == Init /\ [][Next]_vars

\* ------------------------------------------------- many rounds
\* The same server over MaxSettled rounds, with the wagers narrowed to s1
\* staking 30 on head or on tale (so that tale or head wins the round).
HistoryNext ==
  \/ \E id \in SocketIds : Connect(id)
  \/ \E side \in {"head", "tale"} : PlayUpTo("s1", side, 30, MaxSettled)
  \/ \E id \in SocketIds : Disconnect(id)
  \/ \E t \in endTimers : EndRound(t)
  \/ \E t \in resetTimers : ResetRound(t)
  \/ Tick

HistorySpec == Init /\ [][HistoryNext]_vars

\* ------------------------------------------------- timers that do fire
\* The server with wagers of 30 on head or tale.  A setTimeout callback runs
\* once its delay has passed, and time does pass.
FairNext ==
  \/ \E id \in SocketIds : Connect(id)
  \/ \E id \in SocketIds, side \in {"head", "tale"} : PlayUpTo(id, side, 30, MaxFairRounds)
  \/ \E id \in SocketIds : Disconnect(id)
  \/ \E t \in endTimers : EndRound(t)
  \/ \E t \in resetTimers : ResetRound(t)
  \/ Tick

FairSpec ==
  /\ Init
  /\ [][FairNext]_vars
  /\ WF_vars(Tick)
  /\ WF_vars(\E t \in endTimers : EndRound(t))
  /\ WF_vars(\E t \in resetTimers : ResetRound(t))

\* ------------------------------------------------- the two pure functions
\* One call of calculateStreak on any history of up to MaxHistoryLen outcomes,
\* or of calculateMultiplier on any streak up to MaxStreakArg; the server is idle.
Outcomes == {"head", "tale", "draw"}

Histories == UNION {[1..n -> Outcomes] : n \in 0..MaxHistoryLen}

CalcInit ==
  /\ head = <<>>
  /\ tale = <<>>
  /\ gameHistory = <<>>
  /\ activePlayers = {}
  /\ currentBets = <<>>
  /\ isRoundActive = FALSE
  /\ roundEndTime = Null
  /\ sockets = [id \in SocketIds |-> "fresh"]
  /\ endTimers = {}
  /\ resetTimers = {}
  /\ emitted = <<>>
  /\ roundNo = 0
  /\ acceptedInRound = [id \in SocketIds |-> 0]
  /\ forcedRounds = {}
  /\ settled = <<>>
  /\ call \in {[fn |-> "calculateStreak", arg |-> h, result |-> Null, done |-> FALSE] :
                  h \in Histories}
             \cup {[fn |-> "calculateMultiplier", arg |-> n, result |-> Null, done |-> FALSE] :
                     n \in 0..MaxStreakArg}

CallStreak ==
  /\ call.fn = "calculateStreak"
  /\ ~call.done
  /\ call' = [call EXCEPT !.result = calculateStreak(call.arg), !.done = TRUE]
  /\ UNCHANGED <<head, tale, gameHistory, activePlayers, currentBets, isRoundActive,
                 roundEndTime, sockets, endTimers, resetTimers, emitted, roundNo,
                 acceptedInRound, forcedRounds, settled>>

CallMultiplier ==
  /\ call.fn = "calculateMultiplier"
  /\ ~call.done
  /\ call' = [call EXCEPT !.result = calculateMultiplier(call.arg), !.done = TRUE]
  /\ UNCHANGED <<head, tale, gameHistory, activePlayers, currentBets, isRoundActive,
                 roundEndTime, sockets, endTimers, resetTimers, emitted, roundNo,
                 acceptedInRound, forcedRounds, settled>>

CalcNext == CallStreak \/ CallMultiplier

CalcSpec == CalcInit /\ [][CalcNext]_vars

\* ------------------------------------------------------------ properties
HasEvent(events, type) == \E i \in DOMAIN events : events[i].type = type

Results(events) == {events[i] : i \in {j \in DOMAIN events : events[j].type = "game-result"}}

\* C1: between one "game-start" and the next, no socket has more than one
\* wager accepted.
C1_NoDoubleWager == \A id \in SocketIds : acceptedInRound[id] <= 1

\* C2: every "game-result" is produced by the timer that was scheduled when the
\* round it settles was started; a timer of an earlier round settles nothing.
C2_SettledByOwnTimer == \A e \in Results(emitted) : e.timerRound = e.round

\* C3: when the last connected player disconnects while a round is active, the
\* round is idle at once (flag false, end time null, nothing left in the ledger),
\* and no "game-result" is ever emitted for a round that was stopped that way.
LastLeaves(id) == Disconnect(id) /\ isRoundActive /\ activePlayers = {id}

C3_ForcedIdle ==
  [][ /\ \A id \in SocketIds :
           LastLeaves(id) =>
             /\ ~isRoundActive'
             /\ roundEndTime' = Null
             /\ DOMAIN currentBets' = {}
             /\ DOMAIN head' = {}
             /\ DOMAIN tale' = {}
             /\ ~HasEvent(emitted', "game-result")
      /\ \A e \in Results(emitted') : e.round \notin forcedRounds' ]_vars

\* a round was stopped by its last player leaving, and its timer has since run
C3_Witness ==
  \E r \in forcedRounds :
     /\ \A t \in endTimers : t.round # r
     /\ gameHistory = <<>>
     /\ ~isRoundActive

InCooldown == ~isRoundActive /\ resetTimers # {}

C5_CooldownWagerIgnored ==
  [][ \A id \in SocketIds, side \in Sides, point \in Points :
        (InCooldown /\ Play(id, side, point)) =>
          UNCHANGED <<head, tale, currentBets, isRoundActive, roundNo>> ]_vars

\* C6: the cooldown reset never runs while a round is active.
C6_ResetOnlyWhenIdle ==
  [][ \A t \in resetTimers : ResetRound(t) => ~isRoundActive ]_vars

\* C7: in every "game-result" the winner is the side with the strictly lower
\* total, and equal totals give a draw.
C7_WinnerIsLowerSide ==
  \A e \in Results(emitted) :
     /\ e.totalHead < e.totalTale => e.winner = "head"
     /\ e.totalTale < e.totalHead => e.winner = "tale"
     /\ e.totalHead = e.totalTale => e.winner = "draw"

\* a settlement with unequal, non-zero totals, after each outcome has occurred
C7_Witness ==
  /\ \E e \in Results(emitted) :
        e.totalHead > 0 /\ e.totalTale > 0 /\ e.totalHead # e.totalTale
  /\ {gameHistory[i] : i \in DOMAIN gameHistory} = {"head", "tale", "draw"}

\* C8: in every "game-result" whose winner is "draw", every playerResults entry
\* has won = false and amount = 0.
C8_DrawPaysNothing ==
  \A e \in Results(emitted) :
     e.winner = "draw" =>
       \A id \in DOMAIN e.playerResults :
          ~e.playerResults[id].won /\ e.playerResults[id].amount = 0

\* C9: at settlement playerResults has one entry per wager of the ledger, with
\* won = (side = winner), originalBet and side those of the wager, and amount
\* the wager times 1.5 + 0.5 * min(run - 1, 9) when won, else 0, where run is
\* the length of the run of equal outcomes ending the history that includes
\* this round.  (EndRound leaves currentBets as it was; amounts in hundredths.)
TailRun(history) ==
  CHOOSE k \in 0..Len(history) :
     /\ \A i \in (Len(history) - k + 1)..Len(history) : history[i] = history[Len(history)]
     /\ k < Len(history) => history[Len(history) - k] # history[Len(history)]

C9_PlayerResults ==
  \A e \in Results(emitted) :
     /\ DOMAIN e.playerResults = DOMAIN currentBets
     /\ e.history = gameHistory
     /\ \A id \in DOMAIN currentBets :
          LET bet == currentBets[id]
              res == e.playerResults[id]
              rate == 150 + 50 * Min(TailRun(gameHistory) - 1, 9)
          IN /\ res.won = (bet.side = e.winner)
             /\ res.originalBet = bet.amount
             /\ res.side = bet.side
             /\ res.amount = IF bet.side = e.winner THEN bet.amount * rate ELSE 0

\* s1 head/50 and s2 tale/30 in the first round: tale wins, s2 is paid 45
C9_Witness ==
  \E e \in Results(emitted) :
     /\ e.history = <<"tale">>
     /\ e.streak = 1
     /\ e.totalHead = 50 /\ e.totalTale = 30
     /\ e.playerResults =
          [id \in SocketIds |->
             IF id = "s1"
             THEN [won |-> FALSE, amount |-> 0, originalBet |-> 50, side |-> "head"]
             ELSE [won |-> TRUE, amount |-> 4500, originalBet |-> 30, side |-> "tale"]]

\* C10: a wager whose side is neither "head" nor "tale" changes nothing: no
\* entry in the ledger, no change of the totals, no round started.
C10_InvalidSideRejected ==
  [][ \A id \in SocketIds, side \in Sides \ {"head", "tale"}, point \in Points :
        Play(id, side, point) =>
          UNCHANGED <<head, tale, currentBets, isRoundActive, roundNo>> ]_vars

\* C11: a wager whose amount is zero or negative changes nothing: it is not
\* recorded, the totals stay as they were, and no round is started.
C11_NonPositiveAmountRejected ==
  [][ \A id \in SocketIds, side \in Sides, point \in {p \in Points : p <= 0} :
        Play(id, side, point) =>
          UNCHANGED <<head, tale, currentBets, isRoundActive, roundNo>> ]_vars

\* C13: in every state the head total is the sum of the recorded wagers with side
\* head, likewise for tale, and the totals carried by every "bet-update" and
\* "game-result" equal these sums when they are emitted.
RECURSIVE WagerSum(_, _, _)
WagerSum(bets, ids, side) ==
  IF ids = {} THEN 0
  ELSE LET id == CHOOSE x \in ids : TRUE
       IN (IF bets[id].side = side THEN bets[id].amount ELSE 0)
          + WagerSum(bets, ids \ {id}, side)

C13_TotalsAreSums ==
  LET headSum == WagerSum(currentBets, DOMAIN currentBets, "head")
      taleSum == WagerSum(currentBets, DOMAIN currentBets, "tale")
  IN /\ Total(head) = headSum
     /\ Total(tale) = taleSum
     /\ DOMAIN head = {id \in DOMAIN currentBets : currentBets[id].side = "head"}
     /\ DOMAIN tale = {id \in DOMAIN currentBets : currentBets[id].side = "tale"}
     /\ \A i \in DOMAIN emitted :
          /\ emitted[i].type = "bet-update" =>
               emitted[i].head = headSum /\ emitted[i].tale = taleSum
          /\ emitted[i].type = "game-result" =>
               emitted[i].totalHead = headSum /\ emitted[i].totalTale = taleSum

\* a wager has just been accepted with 30 on head and 50 on tale in the ledger
C13_Witness ==
  \E i \in DOMAIN emitted :
     /\ emitted[i].type = "bet-update"
     /\ emitted[i].head = 30
     /\ emitted[i].tale = 50

\* C16: the snapshot sent to a socket that connects while a round is active
\* carries the history, the active players, and the round's start time and
\* duration.
C16_LateJoinerSnapshot ==
  \A i \in DOMAIN emitted :
     (emitted[i].type = "game-history" /\ isRoundActive) =>
        {"history", "activePlayers", "startTime", "duration"} \subseteq DOMAIN emitted[i]

\* C17: when a round timer fires while no round is active, history, wagers,
\* totals, round flag and round end time stay as they were, nothing is emitted
\* and no reset is scheduled.
EndTimerFires == \E t \in endTimers : t.left = 0 /\ endTimers' = endTimers \ {t}

C17_StaleTimerIsNoOp ==
  [][ (EndTimerFires /\ ~isRoundActive) =>
        /\ UNCHANGED <<gameHistory, currentBets, head, tale, isRoundActive,
                       roundEndTime, resetTimers>>
        /\ emitted' = <<>> ]_vars

\* a round was started, every round timer has run, and nothing was settled
C17_Witness ==
  /\ roundNo >= 1
  /\ endTimers = {}
  /\ resetTimers = {}
  /\ settled = <<>>
  /\ emitted = <<>>
  /\ ~isRoundActive

\* C18: whenever "bet-update" or "game-result" is emitted, every wager counted
\* in the totals or listed in playerResults was accepted since the last
\* "game-start".
C18_OnlyThisRoundsWagers ==
  \A i \in DOMAIN emitted :
     /\ emitted[i].type = "bet-update" =>
          \A id \in DOMAIN head \cup DOMAIN tale : acceptedInRound[id] >= 1
     /\ emitted[i].type = "game-result" =>
          \A id \in DOMAIN head \cup DOMAIN tale \cup DOMAIN emitted[i].playerResults :
             acceptedInRound[id] >= 1

\* C20: every entry of currentBets, head and tale belongs to an active player,
\* and a disconnect removes the entries of the leaving socket and no others.
C20_WagersOfActivePlayers ==
  /\ [](DOMAIN currentBets \cup DOMAIN head \cup DOMAIN tale \subseteq activePlayers)
  /\ [][ \A id \in SocketIds :
           Disconnect(id) =>
             /\ DOMAIN currentBets' = DOMAIN currentBets \ {id}
             /\ DOMAIN head' = DOMAIN head \ {id}
             /\ DOMAIN tale' = DOMAIN tale \ {id}
             /\ \A other \in DOMAIN currentBets' : currentBets'[other] = currentBets[other]
             /\ \A other \in DOMAIN head' : head'[other] = head[other]
             /\ \A other \in DOMAIN tale' : tale'[other] = tale[other] ]_vars

\* a socket that had wagered has left, and the other socket's wager is still there
C20_Witness ==
  /\ HasEvent(emitted, "player-left")
  /\ \E id \in SocketIds : sockets[id] = "closed" /\ acceptedInRound[id] >= 1
  /\ \E id \in activePlayers : id \in DOMAIN currentBets /\ id \in DOMAIN tale

\* C12: gameHistory is the window of the last 10 settled outcomes: its length
\* is min(number of settled rounds, 10), it holds the most recent outcomes in
\* settlement order, and only a settlement changes it.
C12_HistoryWindow ==
  /\ [] LET n == Len(settled)
            k == IF n < 10 THEN n ELSE 10
        IN /\ Len(gameHistory) = k
           /\ \A i \in 1..k : gameHistory[i] = settled[n - k + i]
  /\ [][ gameHistory' # gameHistory =>
           /\ HasEvent(emitted', "game-result")
           /\ Len(settled') = Len(settled) + 1 ]_vars

\* eleven rounds were settled and the first outcome, a head, has left the window
C12_Witness ==
  /\ Len(settled) = 11
  /\ Len(gameHistory) = 10
  /\ settled[1] = "head"
  /\ settled[2] = "tale"
  /\ gameHistory[1] = "tale"

\* C14: calculateMultiplier(streak) is 1.5 + min(streak - 1, 9) * 0.5 written
\* with two decimals, for every streak >= 0; it never decreases as the streak
\* grows, and it is 6.00 for every streak >= 10 (1 gives 1.50, 5 gives 3.50,
\* 10 and 20 give 6.00).  Values are compared in hundredths.
DecimalValue(str) == str[1] * 100 + str[2] * 10 + str[3]

C14_Multiplier ==
  (call.fn = "calculateMultiplier" /\ call.done) =>
     LET streak == call.arg
         value == DecimalValue(call.result)
     IN /\ Len(call.result) = 3
        /\ call.result[2] \in 0..9 /\ call.result[3] \in 0..9
        /\ value = 150 + 50 * (IF streak - 1 < 9 THEN streak - 1 ELSE 9)
        /\ \A smaller \in 0..streak : DecimalValue(calculateMultiplier(smaller)) <= value
        /\ streak >= 10 => value = 600
        /\ streak = 1 => call.result = <<1, 5, 0>>
        /\ streak = 5 => call.result = <<3, 5, 0>>
        /\ streak = 10 => call.result = <<6, 0, 0>>
        /\ streak = 20 => call.result = <<6, 0, 0>>

\* calculateMultiplier(20) has returned "6.00"
C14_Witness ==
  /\ call.fn = "calculateMultiplier"
  /\ call.done
  /\ call.arg = 20
  /\ call.result = <<6, 0, 0>>

\* C15: calculateStreak(history) is the length of the run of equal entries that
\* ends at the last entry: 0 for the empty history, at least 1 otherwise; a
\* draw counts as a value of its own.
C15_Streak ==
  (call.fn = "calculateStreak" /\ call.done) =>
     /\ call.result = TailRun(call.arg)
     /\ Len(call.arg) = 0 => call.result = 0
     /\ Len(call.arg) > 0 => call.result >= 1
     /\ call.arg = <<"head", "head", "tale", "head", "head", "head">> => call.result = 3
     /\ call.arg = <<"head", "head", "draw">> => call.result = 1

\* calculateStreak([head, head, tale, head, head, head]) has returned 3
C15_Witness ==
  /\ call.fn = "calculateStreak"
  /\ call.done
  /\ call.arg = <<"head", "head", "tale", "head", "head", "head">>
  /\ call.result = 3

\* C19: with timers that fire, every started round is eventually settled or
\* stopped by its last player leaving, every settlement is eventually followed
\* by the reset it scheduled, and the round does not stay active forever.
SettledNow(r) ==
  \E i \in DOMAIN emitted : emitted[i].type = "game-result" /\ emitted[i].round = r

ResetNow(r) ==
  \E i \in DOMAIN emitted : emitted[i].type = "reset-game" /\ emitted[i].round = r

C19_RoundsEnd ==
  /\ \A r \in 1..MaxFairRounds :
        /\ (isRoundActive /\ roundNo = r) ~> (SettledNow(r) \/ r \in forcedRounds)
        /\ SettledNow(r) ~> ResetNow(r)
  /\ isRoundActive ~> ~isRoundActive

\* the second round has been settled and then reset
C19_Witness ==
  /\ ResetNow(2)
  /\ Len(settled) = 2
  /\ resetTimers = {}

====
